---- MODULE Spec2Model ----
(***************************************************************************)
(* A model of lit (src/src/main.rs): the tangle run of Lit::tangle, from   *)
(* the walk over the input directory, through parse_markdown and the merge *)
(* of read_blocks, to the rendering (FileBlocks::to_content) and the write *)
(* of every destination file.                                              *)
(*                                                                         *)
(* Strings are sequences of one-character strings, compared by the ASCII   *)
(* codes of their characters as Rust's str::cmp does.  A PathBuf is the    *)
(* sequence of its components.  Option<T> is a record with a some flag.    *)
(* Every stored block carries a provenance tag src = <<document, child>>,  *)
(* which the code does not have and no operation reads: it only names the  *)
(* block in the properties.                                                *)
(***************************************************************************)
EXTENDS Integers, Sequences, FiniteSets, TLC

VARIABLES pc, docs, cur, blocks, files, written, err, dropped

vars == <<pc, docs, cur, blocks, files, written, err, dropped>>

\* Bounds of the model: documents per run and root children per run, for
\* runs over the fragments that are blocks (Spec) and for runs over every
\* kind of root child (SpecAll), and discarded errors of the walk per run
\* (SpecWalk).
MaxDocs == 2
MaxNodes == 3
MaxDocsAll == 2
MaxNodesAll == 2
MaxWalkErrors == 1

None == [some |-> FALSE]
Some(x) == [some |-> TRUE, val |-> x]

EmptyMap == << >>

\* HashMap::entry(k).or_default(): the stored value, or the default one.
Entry(m, k, default) == IF k \in DOMAIN m THEN m[k] ELSE default

\* HashMap with the value at k replaced (or inserted).
Put(m, k, v) == [q \in (DOMAIN m) \cup {k} |-> IF q = k THEN v ELSE m[q]]

(***************************************************************************)
(* Characters and strings.                                                 *)
(***************************************************************************)
CharCode(c) ==
    CASE c = "\n" -> 10
      [] c = "/" -> 47
      [] c = "A" -> 65
      [] c = "B" -> 66
      [] c = "M" -> 77
      [] c = "a" -> 97
      [] c = "b" -> 98
      [] c = "f" -> 102
      [] c = "g" -> 103
      [] c = "m" -> 109
      [] c = "x" -> 120
      [] c = "z" -> 122

is_ascii_lowercase(c) == CharCode(c) >= 97 /\ CharCode(c) <= 122

\* Mutant of cmp: only the first bytes are compared.
cmp_first_byte(a, b) ==
    IF a = << >> /\ b = << >> THEN 0
    ELSE IF a = << >> THEN -1
    ELSE IF b = << >> THEN 1
    ELSE IF CharCode(Head(a)) < CharCode(Head(b)) THEN -1
    ELSE IF CharCode(Head(a)) > CharCode(Head(b)) THEN 1
    ELSE 0

\* str::cmp: lexicographic comparison by bytes; -1, 0 or 1.
RECURSIVE cmp(_, _)
cmp(a, b) ==
    IF a = << >> /\ b = << >> THEN 0
    ELSE IF a = << >> THEN -1
    ELSE IF b = << >> THEN 1
    ELSE IF CharCode(Head(a)) < CharCode(Head(b)) THEN -1
    ELSE IF CharCode(Head(a)) > CharCode(Head(b)) THEN 1
    ELSE cmp(Tail(a), Tail(b))

(***************************************************************************)
(* Position                                                                *)
(***************************************************************************)
\* Mutant of Position_try_from: the reserved prefix is not checked.
Position_try_from_no_reserved(value) ==
    IF value = << >> THEN [ok |-> FALSE, err |-> "Empty"]
    ELSE IF ~(\A i \in 1..Len(value) : is_ascii_lowercase(value[i]))
        THEN [ok |-> FALSE, err |-> "InvalidCharacters"]
    ELSE [ok |-> TRUE, pos |-> value]

Position_try_from(value) ==
    IF value = << >> THEN [ok |-> FALSE, err |-> "Empty"]
    ELSE IF ~(\A i \in 1..Len(value) : is_ascii_lowercase(value[i]))
        THEN [ok |-> FALSE, err |-> "InvalidCharacters"]
    ELSE IF Head(value) = "m" THEN [ok |-> FALSE, err |-> "ReservedPrefix"]
    ELSE [ok |-> TRUE, pos |-> value]

(***************************************************************************)
(* Block.  A node is a record with a kind; a code node has lang (an Option *)
(* of a language string) and value.  A language string is given by what    *)
(* Url::parse makes of it: isUrl, and for a URL its scheme, host (an       *)
(* Option), path and query pairs.                                          *)
(***************************************************************************)
\* PathBuf::from: the components of the string, separated by "/".
RECURSIVE Components(_, _, _)
Components(s, i, acc) ==
    IF i > Len(s) THEN (IF acc = << >> THEN << >> ELSE << acc >>)
    ELSE IF s[i] = "/"
        THEN (IF acc = << >> THEN << >> ELSE << acc >>) \o Components(s, i + 1, << >>)
    ELSE Components(s, i + 1, Append(acc, s[i]))

PathBuf_from(s) == Components(s, 1, << >>)

\* query_pairs().find(|(key, _)| key == "at"): the first pair named "at".
RECURSIVE find_at(_, _)
find_at(query, i) ==
    IF i > Len(query) THEN None
    ELSE IF query[i][1] = "at" THEN Some(query[i][2])
    ELSE find_at(query, i + 1)

\* Mutant of Block_try_from: the URL's path is left out of the destination.
Block_try_from_host_only(node) ==
    IF node.kind # "code" THEN [ok |-> FALSE, err |-> "NotCodeNode"]
    ELSE IF ~node.lang.some THEN [ok |-> FALSE, err |-> "NoLanguage"]
    ELSE LET parsed == node.lang.val IN
    IF ~parsed.isUrl THEN [ok |-> FALSE, err |-> "NotTangleUrl"]
    ELSE IF parsed.scheme # "tangle" THEN [ok |-> FALSE, err |-> "NotTangleScheme"]
    ELSE IF ~parsed.host.some THEN [ok |-> FALSE, err |-> "MissingPath"]
    ELSE LET at == find_at(parsed.query, 1)
             position == IF at.some THEN Position_try_from(at.val)
                         ELSE [ok |-> TRUE]
         IN  IF ~position.ok
                 THEN [ok |-> FALSE, err |-> "PositionError", perr |-> position.err]
             ELSE [ok |-> TRUE,
                   block |-> [path |-> PathBuf_from(parsed.host.val),
                              position |-> IF at.some THEN Some(position.pos) ELSE None,
                              content |-> node.value]]

Block_try_from(node) ==
    IF node.kind # "code" THEN [ok |-> FALSE, err |-> "NotCodeNode"]
    ELSE IF ~node.lang.some THEN [ok |-> FALSE, err |-> "NoLanguage"]
    ELSE LET parsed == node.lang.val IN
    IF ~parsed.isUrl THEN [ok |-> FALSE, err |-> "NotTangleUrl"]
    ELSE IF parsed.scheme # "tangle" THEN [ok |-> FALSE, err |-> "NotTangleScheme"]
    ELSE IF ~parsed.host.some THEN [ok |-> FALSE, err |-> "MissingPath"]
    ELSE LET host == parsed.host.val
             path_str == IF parsed.path = << >> \/ parsed.path = << "/" >>
                         THEN host
                         ELSE host \o parsed.path
             at == find_at(parsed.query, 1)
             position == IF at.some THEN Position_try_from(at.val)
                         ELSE [ok |-> TRUE]
         IN  IF ~position.ok
                 THEN [ok |-> FALSE, err |-> "PositionError", perr |-> position.err]
             ELSE [ok |-> TRUE,
                   block |-> [path |-> PathBuf_from(path_str),
                              position |-> IF at.some THEN Some(position.pos) ELSE None,
                              content |-> node.value]]

(***************************************************************************)
(* FileBlocks                                                              *)
(***************************************************************************)
FileBlocks_default == [positioned |-> << >>, unpositioned |-> << >>]

\* Mutant of add: no check for a duplicate key.
add_unchecked(self, at, content, src) ==
    IF at.some
    THEN [ok |-> TRUE,
          fb |-> [self EXCEPT !.positioned =
                     Append(@, [at |-> at.val, content |-> content, src |-> src])]]
    ELSE [ok |-> TRUE,
          fb |-> [self EXCEPT !.unpositioned =
                     Append(@, [content |-> content, src |-> src])]]

\* Mutant of add: the key is compared with the last stored key only.
add_last_only(self, at, content, src) ==
    IF at.some
    THEN IF self.positioned # << >>
            /\ self.positioned[Len(self.positioned)].at = at.val
         THEN [ok |-> FALSE, err |-> "DuplicatePosition"]
         ELSE [ok |-> TRUE,
               fb |-> [self EXCEPT !.positioned =
                          Append(@, [at |-> at.val, content |-> content, src |-> src])]]
    ELSE [ok |-> TRUE,
          fb |-> [self EXCEPT !.unpositioned =
                     Append(@, [content |-> content, src |-> src])]]

add(self, at, content, src) ==
    IF at.some
    THEN IF \E i \in 1..Len(self.positioned) : self.positioned[i].at = at.val
         THEN [ok |-> FALSE, err |-> "DuplicatePosition"]
         ELSE [ok |-> TRUE,
               fb |-> [self EXCEPT !.positioned =
                          Append(@, [at |-> at.val, content |-> content, src |-> src])]]
    ELSE [ok |-> TRUE,
          fb |-> [self EXCEPT !.unpositioned =
                     Append(@, [content |-> content, src |-> src])]]

\* The vector to_content builds before sorting: positioned blocks under
\* their keys, then unpositioned blocks under the implicit key "m".
all_blocks(self) ==
    [i \in 1..Len(self.positioned) |->
        [key |-> self.positioned[i].at, content |-> self.positioned[i].content,
         src |-> self.positioned[i].src]]
    \o
    [i \in 1..Len(self.unpositioned) |->
        [key |-> << "m" >>, content |-> self.unpositioned[i].content,
         src |-> self.unpositioned[i].src]]

\* Mutant of insert_sorted: the element goes before its equals (the sort
\* is not stable).
RECURSIVE insert_sorted_before_equal(_, _)
insert_sorted_before_equal(sorted, x) ==
    IF sorted = << >> THEN << x >>
    ELSE IF cmp(sorted[Len(sorted)].key, x.key) < 0 THEN Append(sorted, x)
    ELSE Append(insert_sorted_before_equal(SubSeq(sorted, 1, Len(sorted) - 1), x),
                sorted[Len(sorted)])

\* One element placed into a sorted vector after every element that does
\* not compare greater: slice::sort_by is stable.
RECURSIVE insert_sorted(_, _)
insert_sorted(sorted, x) ==
    IF sorted = << >> THEN << x >>
    ELSE IF cmp(sorted[Len(sorted)].key, x.key) <= 0 THEN Append(sorted, x)
    ELSE Append(insert_sorted(SubSeq(sorted, 1, Len(sorted) - 1), x), sorted[Len(sorted)])

RECURSIVE sort_from(_, _, _)
sort_from(v, i, sorted) ==
    IF i > Len(v) THEN sorted ELSE sort_from(v, i + 1, insert_sorted(sorted, v[i]))

\* Mutant of sort_by: the vector is left as it was built.
sort_by_unsorted(v) == v

\* all_blocks.sort_by(|a, b| a.0.cmp(b.0))
sort_by(v) == sort_from(v, 1, << >>)

sorted_blocks(self) == sort_by(all_blocks(self))

\* [&str]::join(sep)
RECURSIVE join(_, _)
join(strs, sep) ==
    IF strs = << >> THEN << >>
    ELSE IF Len(strs) = 1 THEN strs[1]
    ELSE strs[1] \o sep \o join(Tail(strs), sep)

\* Mutant of to_content: the final newline is added only to a content that
\* does not end with one already.
to_content_ensure_newline(self) ==
    LET sorted == sorted_blocks(self)
        content == join([i \in 1..Len(sorted) |-> sorted[i].content], << "\n", "\n" >>)
    IN  IF content # << >> /\ content[Len(content)] = "\n" THEN content
        ELSE content \o << "\n" >>

\* format!("{content}\n") of the sorted contents joined by "\n\n".
to_content(self) ==
    LET sorted == sorted_blocks(self)
        content == join([i \in 1..Len(sorted) |-> sorted[i].content], << "\n", "\n" >>)
    IN  content \o << "\n" >>

(***************************************************************************)
(* Lit::parse_markdown, one root child at a time, and as a whole.          *)
(***************************************************************************)
\* The first fence inside a container node, the node itself otherwise.
RECURSIVE first_fence(_)
first_fence(node) ==
    IF node.kind \in { "blockquote", "list", "listItem" }
    THEN first_fence(node.children[1])
    ELSE node

\* Mutant of parse_markdown_child: the traversal descends into block quotes
\* and lists.
parse_markdown_child_nested(doc_files, child, src) ==
    LET r == Block_try_from(first_fence(child)) IN
    IF r.ok
    THEN LET file_blocks == Entry(doc_files, r.block.path, FileBlocks_default)
             a == add(file_blocks, r.block.position, r.block.content, src)
         IN  IF a.ok THEN [ok |-> TRUE, files |-> Put(doc_files, r.block.path, a.fb)]
             ELSE [ok |-> FALSE, err |-> a.err]
    ELSE IF r.err = "PositionError" THEN [ok |-> FALSE, err |-> r.perr]
    ELSE [ok |-> TRUE, files |-> doc_files]

\* Mutant of parse_markdown_child: every error of Block::try_from is
\* propagated.
parse_markdown_child_strict(doc_files, child, src) ==
    LET r == Block_try_from(child) IN
    IF r.ok
    THEN LET file_blocks == Entry(doc_files, r.block.path, FileBlocks_default)
             a == add(file_blocks, r.block.position, r.block.content, src)
         IN  IF a.ok THEN [ok |-> TRUE, files |-> Put(doc_files, r.block.path, a.fb)]
             ELSE [ok |-> FALSE, err |-> a.err]
    ELSE IF r.err = "PositionError" THEN [ok |-> FALSE, err |-> r.perr]
    ELSE [ok |-> FALSE, err |-> r.err]

\* The body of the loop over root.children: files is the document's map.
parse_markdown_child(doc_files, child, src) ==
    LET r == Block_try_from(child) IN
    IF r.ok
    THEN LET file_blocks == Entry(doc_files, r.block.path, FileBlocks_default)
             a == add(file_blocks, r.block.position, r.block.content, src)
         IN  IF a.ok THEN [ok |-> TRUE, files |-> Put(doc_files, r.block.path, a.fb)]
             ELSE [ok |-> FALSE, err |-> a.err]
    ELSE IF r.err = "PositionError" THEN [ok |-> FALSE, err |-> r.perr]
    ELSE [ok |-> TRUE, files |-> doc_files]

RECURSIVE parse_from(_, _, _, _)
parse_from(children, d, i, doc_files) ==
    IF i > Len(children) THEN [ok |-> TRUE, files |-> doc_files]
    ELSE LET r == parse_markdown_child(doc_files, children[i], << d, i >>) IN
         IF r.ok THEN parse_from(children, d, i + 1, r.files) ELSE r

\* parse_markdown of document number d, whose root has these children.
parse_markdown(children, d) == parse_from(children, d, 1, EmptyMap)

(***************************************************************************)
(* Lit::read_blocks: the merge of one document's map into the run's map.   *)
(***************************************************************************)
RECURSIVE add_positioned(_, _, _)
add_positioned(target, positioned, i) ==
    IF i > Len(positioned) THEN [ok |-> TRUE, fb |-> target]
    ELSE LET a == add(target, Some(positioned[i].at), positioned[i].content,
                      positioned[i].src) IN
         IF a.ok THEN add_positioned(a.fb, positioned, i + 1) ELSE a

RECURSIVE add_unpositioned(_, _, _)
add_unpositioned(target, unpositioned, i) ==
    IF i > Len(unpositioned) THEN [ok |-> TRUE, fb |-> target]
    ELSE LET a == add(target, None, unpositioned[i].content, unpositioned[i].src) IN
         IF a.ok THEN add_unpositioned(a.fb, unpositioned, i + 1) ELSE a

\* Mutant of merge_file: the document's blocks replace the run's.
merge_file_replace(target, file_blocks) == [ok |-> TRUE, fb |-> file_blocks]

\* The body of "for (path, file_blocks) in blocks" for one path.
merge_file(target, file_blocks) ==
    LET p == add_positioned(target, file_blocks.positioned, 1) IN
    IF p.ok THEN add_unpositioned(p.fb, file_blocks.unpositioned, 1) ELSE p

\* The whole loop: paths are merged independently of each other, so the
\* HashMap's iteration order decides neither the outcome nor the result.
merge_blocks(run_files, doc_files) ==
    IF \E p \in DOMAIN doc_files :
          ~merge_file(Entry(run_files, p, FileBlocks_default), doc_files[p]).ok
    THEN [ok |-> FALSE, err |-> "DuplicatePosition"]
    ELSE [ok |-> TRUE,
          files |-> [p \in (DOMAIN run_files) \cup (DOMAIN doc_files) |->
                       IF p \in DOMAIN doc_files
                       THEN merge_file(Entry(run_files, p, FileBlocks_default),
                                       doc_files[p]).fb
                       ELSE run_files[p]]]

\* read_blocks as a whole, on these documents taken in this order (a
\* sequence of document numbers): Ok with the run's map, or the first Err.
RECURSIVE read_blocks_from(_, _, _, _)
read_blocks_from(documents, order, k, run_files) ==
    IF k > Len(order) THEN [ok |-> TRUE, files |-> run_files]
    ELSE LET parsed == parse_markdown(documents[order[k]], order[k]) IN
         IF ~parsed.ok THEN parsed
         ELSE LET merged == merge_blocks(run_files, parsed.files) IN
              IF ~merged.ok THEN merged
              ELSE read_blocks_from(documents, order, k + 1, merged.files)

read_blocks(documents, order) == read_blocks_from(documents, order, 1, EmptyMap)

(***************************************************************************)
(* The documents the walk can meet: root children drawn from Nodes.        *)
(***************************************************************************)
Url(scheme, host, path, query) ==
    [isUrl |-> TRUE, scheme |-> scheme, host |-> host, path |-> path, query |-> query]

NotUrl == [isUrl |-> FALSE]

Code(lang, value) == [kind |-> "code", lang |-> lang, value |-> value]

Tangle(host, path, query, value) ==
    Code(Some(Url("tangle", Some(host), path, query)), value)

At(key) == << << "at", key >> >>

InvalidKeys == { << >>, << "M", "a" >>, << "m" >>, << "m", "a" >> }

\* tangle://f, tangle://f/, tangle://f?at=a and tangle://g/x?at=a.
PlainNodes ==
    { Tangle(<< "f" >>, << >>, << >>, << "A" >>),
      Tangle(<< "f" >>, << "/" >>, << >>, << "B", "\n" >>),
      Tangle(<< "f" >>, << >>, At(<< "a" >>), << "A" >>),
      Tangle(<< "g" >>, << "/", "x" >>, At(<< "a" >>), << "B", "\n" >>) }

\* tangle://f?other=a&at=z and tangle://f?at=ab.
MoreNodes ==
    { Tangle(<< "f" >>, << >>, << << "other", << "a" >> >>, << "at", << "z" >> >> >>,
             << "B", "\n" >>),
      Tangle(<< "f" >>, << >>, At(<< "a", "b" >>), << "B", "\n" >>) }

\* tangle://f?at=k for every invalid key k.
InvalidKeyNodes == { Tangle(<< "f" >>, << >>, At(k), << "A" >>) : k \in InvalidKeys }

\* tangle:f, a tangle address with no host.
HostlessNodes == { Code(Some(Url("tangle", None, << "f" >>, << >>)), << "A" >>) }

\* A paragraph, a fence with no language, with a language that is no URL,
\* with a URL of another scheme, a block quote holding the fence tangle://f
\* and a list whose item holds the fence tangle://x.
OtherNodes ==
    { [kind |-> "paragraph"],
      Code(None, << "A" >>),
      Code(Some(NotUrl), << "A" >>),
      Code(Some(Url("https", Some(<< "f" >>), << >>, << >>)), << "A" >>),
      [kind |-> "blockquote", children |-> << Tangle(<< "f" >>, << >>, << >>, << "A" >>) >>],
      [kind |-> "list",
       children |-> << [kind |-> "listItem",
                        children |-> << Tangle(<< "x" >>, << >>, << >>, << "A" >>) >>] >>] }

Nodes == PlainNodes \cup MoreNodes \cup InvalidKeyNodes \cup HostlessNodes \cup OtherNodes

\* The fragments that are blocks, a paragraph and a fragment with the
\* reserved key "m".
BlockNodes ==
    PlainNodes \cup MoreNodes
    \cup { [kind |-> "paragraph"], Tangle(<< "f" >>, << >>, At(<< "m" >>), << "A" >>) }

(***************************************************************************)
(* The run: Lit::tangle.                                                   *)
(*   pc       where the run is: "walk" (between two entries of the walk),  *)
(*            "parse" (inside parse_markdown's loop), "write" (inside      *)
(*            tangle's loop), "done" (Ok), "failed" (Err)                  *)
(*   docs     the documents handled so far, each the sequence of its root  *)
(*            children that parse_markdown looked at                       *)
(*   cur      the root children of the current document looked at so far   *)
(*   blocks   parse_markdown's map for the current document               *)
(*   files    read_blocks' map for the run                                 *)
(*   written  the files this run has written in full, with their content   *)
(*   dropped  the number of errors of the walk that read_blocks discarded  *)
(*   err      the error the run ended with, "" when there is none          *)
(***************************************************************************)
RECURSIVE SumLen(_)
SumLen(ds) == IF ds = << >> THEN 0 ELSE Len(Head(ds)) + SumLen(Tail(ds))

NodeCount == SumLen(docs) + Len(cur)

Init ==
    /\ pc = "walk"
    /\ docs = << >>
    /\ cur = << >>
    /\ blocks = EmptyMap
    /\ files = EmptyMap
    /\ written = EmptyMap
    /\ err = ""
    /\ dropped = 0

\* The run returns Err(e): the maps are dropped with the stack.
Fail(e) ==
    /\ pc' = "failed"
    /\ err' = e
    /\ cur' = << >>
    /\ blocks' = EmptyMap
    /\ files' = EmptyMap

\* The walk yields Err (the input directory or one of its entries cannot be
\* enumerated): filter_map(|e| e.ok()) discards it and the walk goes on.
WalkError(max_errors) ==
    /\ pc = "walk"
    /\ dropped < max_errors
    /\ dropped' = dropped + 1
    /\ UNCHANGED << pc, docs, cur, blocks, files, written, err >>

\* The walk yields the next markdown file and it is read.
NextEntry(max_docs) ==
    /\ pc = "walk"
    /\ Len(docs) < max_docs
    /\ pc' = "parse"
    /\ cur' = << >>
    /\ blocks' = EmptyMap
    /\ UNCHANGED << docs, files, written, err, dropped >>

\* The walk yields the next markdown file and fs::read_to_string fails.
ReadError(max_docs) ==
    /\ pc = "walk"
    /\ Len(docs) < max_docs
    /\ Fail("IoRead")
    /\ UNCHANGED << docs, written, dropped >>

\* The walk yields the next markdown file, it is read, and to_mdast fails:
\* parse_markdown returns an empty map without looking at any node, and the
\* merge of an empty map changes nothing.
MdastError(max_docs) ==
    /\ pc = "walk"
    /\ Len(docs) < max_docs
    /\ docs' = Append(docs, << >>)
    /\ UNCHANGED << pc, cur, blocks, files, written, err, dropped >>

\* parse_markdown looks at the next root child of the current document.
Child(node, max_nodes) ==
    /\ pc = "parse"
    /\ NodeCount < max_nodes
    /\ LET r == parse_markdown_child(blocks, node, << Len(docs) + 1, Len(cur) + 1 >>) IN
       IF r.ok
       THEN /\ blocks' = r.files
            /\ cur' = Append(cur, node)
            /\ UNCHANGED << pc, docs, files, err >>
       ELSE /\ Fail(r.err)
            /\ docs' = Append(docs, Append(cur, node))
    /\ UNCHANGED << written, dropped >>

\* Mutant of EndDoc: the files merged so far are written after every document.
EndDoc_eager ==
    /\ pc = "parse"
    /\ LET m == merge_blocks(files, blocks) IN
       IF m.ok
       THEN /\ files' = m.files
            /\ pc' = "walk"
            /\ cur' = << >>
            /\ blocks' = EmptyMap
            /\ written' = [p \in DOMAIN m.files |-> to_content(m.files[p])]
            /\ UNCHANGED err
       ELSE Fail(m.err) /\ UNCHANGED written
    /\ docs' = Append(docs, cur)
    /\ UNCHANGED dropped

\* parse_markdown returns Ok(files) and read_blocks merges them.
EndDoc ==
    /\ pc = "parse"
    /\ LET m == merge_blocks(files, blocks) IN
       IF m.ok
       THEN /\ files' = m.files
            /\ pc' = "walk"
            /\ cur' = << >>
            /\ blocks' = EmptyMap
            /\ UNCHANGED err
       ELSE Fail(m.err)
    /\ docs' = Append(docs, cur)
    /\ UNCHANGED << written, dropped >>

\* The walk is over: read_blocks returns Ok(files) to tangle.
EndWalk ==
    /\ pc = "walk"
    /\ pc' = "write"
    /\ UNCHANGED << docs, cur, blocks, files, written, err, dropped >>

\* Mutant of WriteFile: a file is written as soon as the run's map has it.
WriteFile_streaming(path) ==
    /\ pc \in { "walk", "write" }
    /\ path \in (DOMAIN files) \ (DOMAIN written)
    /\ written' = Put(written, path, to_content(files[path]))
    /\ UNCHANGED << pc, docs, cur, blocks, files, err, dropped >>

\* One turn of tangle's loop: the file of one path is rendered and written.
WriteFile(path) ==
    /\ pc = "write"
    /\ path \in (DOMAIN files) \ (DOMAIN written)
    /\ written' = Put(written, path, to_content(files[path]))
    /\ UNCHANGED << pc, docs, cur, blocks, files, err, dropped >>

\* One turn of tangle's loop in which create_dir_all or fs::write fails.
WriteError(path) ==
    /\ pc = "write"
    /\ path \in (DOMAIN files) \ (DOMAIN written)
    /\ Fail("IoWrite")
    /\ UNCHANGED << docs, written, dropped >>

\* tangle's loop is over: Ok(()).
Finish ==
    /\ pc = "write"
    /\ DOMAIN written = DOMAIN files
    /\ pc' = "done"
    /\ UNCHANGED << docs, cur, blocks, files, written, err, dropped >>

\* The steps of a run over documents with root children among nodes.
Step(nodes, max_docs, max_nodes) ==
    \/ NextEntry(max_docs)
    \/ ReadError(max_docs)
    \/ MdastError(max_docs)
    \/ \E node \in nodes : Child(node, max_nodes)
    \/ EndDoc
    \/ EndWalk
    \/ \E path \in DOMAIN files : WriteFile(path)
    \/ \E path \in DOMAIN files : WriteError(path)
    \/ Finish

Next == Step(BlockNodes, MaxDocs, MaxNodes)

Spec == Init /\ [][Next]_vars

NextAll == Step(Nodes, MaxDocsAll, MaxNodesAll)

SpecAll == Init /\ [][NextAll]_vars

\* Spec and SpecAll are the runs whose walk meets no error; SpecWalk is the
\* runs over every fragment whose walk may.
NextWalk ==
    \/ Step(Nodes, MaxDocsAll, MaxNodesAll)
    \/ WalkError(MaxWalkErrors)

SpecWalk == Init /\ [][NextWalk]_vars

(***************************************************************************)
(* What the properties speak of.                                           *)
(***************************************************************************)
\* The documents looked at, the current one included.
AllDocs == IF pc = "parse" THEN Append(docs, cur) ELSE docs

\* The tags <<document, child>> of the root children of these documents.
Srcs(ds) == UNION { { << d, i >> : i \in 1..Len(ds[d]) } : d \in 1..Len(ds) }

NodeOf(ds, x) == ds[x[1]][x[2]]

\* x was discovered before y.
SrcLess(x, y) == x[1] < y[1] \/ (x[1] = y[1] /\ x[2] < y[2])

\* The root child is a fence whose language is a tangle address.
IsTangle(node) ==
    /\ node.kind = "code"
    /\ node.lang.some
    /\ node.lang.val.isUrl
    /\ node.lang.val.scheme = "tangle"

HasHost(node) == IsTangle(node) /\ node.lang.val.host.some

\* The explicit key of a tangle address, if it has one.
AtOf(node) == find_at(node.lang.val.query, 1)

Accepted(node) == Block_try_from(node).ok

PathOf(node) == Block_try_from(node).block.path

\* The position key a block is ranked by: its own, or "m".
KeyOf(node) ==
    LET position == Block_try_from(node).block.position IN
    IF position.some THEN position.val ELSE << "m" >>

Unpositioned(node) == Accepted(node) /\ ~Block_try_from(node).block.position.some

\* The content of destination path as the run has it: the file when it is
\* written, what to_content makes of the run's map before.
Output(path) == IF path \in DOMAIN written THEN written[path] ELSE to_content(files[path])

\* Where the i-th of these blocks starts in their rendering.
RECURSIVE StartOf(_, _)
StartOf(sorted, i) ==
    IF i = 1 THEN 1 ELSE StartOf(sorted, i - 1) + Len(sorted[i - 1].content) + 2

\* The rendering out holds exactly this content as its i-th block.
SpanIs(out, sorted, i, content) ==
    SubSeq(out, StartOf(sorted, i), StartOf(sorted, i) + Len(content) - 1) = content

\* In the rendering out of the sorted blocks, the block tagged x comes,
\* whole, before the block tagged y; vx and vy are their contents.
RendersBefore(sorted, out, x, vx, y, vy) ==
    \E i, j \in 1..Len(sorted) :
        /\ i < j
        /\ sorted[i].src = x
        /\ sorted[j].src = y
        /\ SpanIs(out, sorted, i, vx)
        /\ SpanIs(out, sorted, j, vy)

\* What Block::try_from makes of every root child of these documents.
Views(ds) == [x \in Srcs(ds) |-> Block_try_from(NodeOf(ds, x))]

\* The position key a block is ranked by: its own, or "m".
RankKey(block) == IF block.position.some THEN block.position.val ELSE << "m" >>

\* The lowercase letters of the model in alphabetical order, and the
\* lexicographic order of the strings over them: a is a proper prefix of b,
\* or the first letter in which they differ is the lesser one in a.
Alphabet == << "a", "b", "f", "g", "m", "x", "z" >>

Rank(c) == CHOOSE i \in 1..Len(Alphabet) : Alphabet[i] = c

LexLess(a, b) ==
    \E k \in 0..Len(a) :
        /\ k <= Len(b)
        /\ SubSeq(a, 1, k) = SubSeq(b, 1, k)
        /\ \/ k = Len(a) /\ k < Len(b)
           \/ k < Len(a) /\ k < Len(b) /\ Rank(a[k + 1]) < Rank(b[k + 1])

\* The documents merged into the run's map, and the one being parsed.
Merged == IF pc = "failed" THEN << >> ELSE docs

Current == { x \in Srcs(AllDocs) : pc = "parse" /\ x[1] = Len(docs) + 1 }

\* C1: two blocks accepted for one destination whose keys (an unpositioned
\* block counting as "m") satisfy a < b render with the content of the one
\* at a before the content of the one at b, in whatever order and from
\* whatever documents they were added: in the run's map and the written
\* file, and in the map parse_markdown builds for a document.
C1_KeyOrder ==
    LET view == Views(AllDocs)
        sorted == [p \in DOMAIN files |-> sorted_blocks(files[p])]
        out == [p \in DOMAIN files |-> Output(p)]
        doc_sorted == [p \in DOMAIN blocks |-> sorted_blocks(blocks[p])]
        doc_out == [p \in DOMAIN blocks |-> to_content(blocks[p])]
    IN
    /\ \A x, y \in { z \in Srcs(Merged) : view[z].ok } :
        LET bx == view[x].block
            by == view[y].block
        IN  (bx.path = by.path /\ LexLess(RankKey(bx), RankKey(by)))
            => /\ bx.path \in DOMAIN files
               /\ RendersBefore(sorted[bx.path], out[bx.path],
                                x, NodeOf(docs, x).value, y, NodeOf(docs, y).value)
    /\ \A x, y \in { z \in Current : view[z].ok } :
        LET bx == view[x].block
            by == view[y].block
        IN  (bx.path = by.path /\ LexLess(RankKey(bx), RankKey(by)))
            => /\ bx.path \in DOMAIN blocks
               /\ RendersBefore(doc_sorted[bx.path], doc_out[bx.path],
                                x, NodeOf(AllDocs, x).value, y, NodeOf(AllDocs, y).value)

\* The run is over, and a block of a later document renders before a block
\* of an earlier document of lesser discovery rank and greater key.
C1_Witness ==
    /\ pc = "done"
    /\ \E x, y \in Srcs(docs) :
        /\ y[1] < x[1]
        /\ Accepted(NodeOf(docs, x)) /\ Accepted(NodeOf(docs, y))
        /\ PathOf(NodeOf(docs, x)) = PathOf(NodeOf(docs, y))
        /\ LexLess(KeyOf(NodeOf(docs, x)), KeyOf(NodeOf(docs, y)))
        /\ Len(KeyOf(NodeOf(docs, x))) = 2
        /\ PathOf(NodeOf(docs, x)) \in DOMAIN written

(***************************************************************************)
(* Duplicate keys.                                                         *)
(***************************************************************************)
Explicit(node) == Accepted(node) /\ Block_try_from(node).block.position.some

\* Two blocks of these documents with one destination and one explicit key.
DupPair(ds, x, y) ==
    /\ x # y
    /\ Explicit(NodeOf(ds, x)) /\ Explicit(NodeOf(ds, y))
    /\ PathOf(NodeOf(ds, x)) = PathOf(NodeOf(ds, y))
    /\ KeyOf(NodeOf(ds, x)) = KeyOf(NodeOf(ds, y))

PositionErrors == { "Empty", "InvalidCharacters", "ReservedPrefix" }

\* Two of these blocks with one destination and one explicit key.
Dup(view, x, y) ==
    /\ x # y
    /\ view[x].block.position.some
    /\ view[y].block.position.some
    /\ view[x].block.path = view[y].block.path
    /\ view[x].block.position.val = view[y].block.position.val

\* C2: the run fails with a duplicate-position error only on a block whose
\* explicit key is already stored for its destination, by a block of the
\* same or of an earlier document; and no two blocks with one destination
\* and one explicit key are ever stored together: the run has failed when
\* the documents hold such a pair.  The same key under two destinations and
\* any number of unpositioned blocks never make the error.
C2_DuplicateIff ==
    LET view == Views(AllDocs)
        accepted == { z \in Srcs(docs) : view[z].ok }
    IN
    /\ err = "DuplicatePosition" =>
        /\ pc = "failed"
        /\ \E x, y \in accepted :
              x[1] = Len(docs) /\ SrcLess(y, x) /\ Dup(view, x, y)
    /\ (\E x, y \in accepted : Dup(view, x, y)) =>
        /\ pc = "failed"
        /\ err \in { "DuplicatePosition" } \cup PositionErrors
    /\ \A x, y \in { z \in Current : view[z].ok } : ~Dup(view, x, y)

\* The run failed on a key of the second document that the first document
\* stored for the same destination, and stored for another destination too.
C2_Witness ==
    /\ pc = "failed"
    /\ err = "DuplicatePosition"
    /\ \E x, y, z \in Srcs(docs) :
        /\ x[1] = 2 /\ y[1] = 1 /\ z[1] = 1
        /\ DupPair(docs, x, y)
        /\ Explicit(NodeOf(docs, z))
        /\ KeyOf(NodeOf(docs, z)) = KeyOf(NodeOf(docs, x))
        /\ PathOf(NodeOf(docs, z)) # PathOf(NodeOf(docs, x))

\* C3: the unpositioned blocks of one destination render in the order of
\* their discovery: by document, and within a document by place.
C3_DiscoveryOrder ==
    LET view == Views(AllDocs)
        sorted == [p \in DOMAIN files |-> sorted_blocks(files[p])]
        out == [p \in DOMAIN files |-> Output(p)]
        doc_sorted == [p \in DOMAIN blocks |-> sorted_blocks(blocks[p])]
        doc_out == [p \in DOMAIN blocks |-> to_content(blocks[p])]
    IN
    /\ \A x, y \in { z \in Srcs(Merged) : view[z].ok /\ ~view[z].block.position.some } :
        (view[x].block.path = view[y].block.path /\ SrcLess(x, y))
            => /\ view[x].block.path \in DOMAIN files
               /\ RendersBefore(sorted[view[x].block.path], out[view[x].block.path],
                                x, NodeOf(docs, x).value, y, NodeOf(docs, y).value)
    /\ \A x, y \in { z \in Current : view[z].ok /\ ~view[z].block.position.some } :
        (view[x].block.path = view[y].block.path /\ SrcLess(x, y))
            => /\ view[x].block.path \in DOMAIN blocks
               /\ RendersBefore(doc_sorted[view[x].block.path],
                                doc_out[view[x].block.path],
                                x, NodeOf(AllDocs, x).value, y, NodeOf(AllDocs, y).value)

\* A written file holds unpositioned blocks of two documents, two of them
\* of one document, with different contents.
C3_Witness ==
    /\ pc = "done"
    /\ \E x, y, z \in Srcs(docs) :
        /\ x[1] = y[1] /\ x[2] < y[2] /\ z[1] # x[1]
        /\ Unpositioned(NodeOf(docs, x))
        /\ Unpositioned(NodeOf(docs, y))
        /\ Unpositioned(NodeOf(docs, z))
        /\ PathOf(NodeOf(docs, x)) = PathOf(NodeOf(docs, y))
        /\ PathOf(NodeOf(docs, x)) = PathOf(NodeOf(docs, z))
        /\ NodeOf(docs, x).value # NodeOf(docs, y).value
        /\ PathOf(NodeOf(docs, x)) \in DOMAIN written

(***************************************************************************)
(* Position keys.                                                          *)
(***************************************************************************)
\* The lowercase ASCII letters among the characters of the model.
Lowercase == { Alphabet[i] : i \in 1..Len(Alphabet) }

\* The error an explicit key must be refused with, "" for a key to accept.
ExpectedError(key) ==
    IF key = << >> THEN "Empty"
    ELSE IF \E i \in 1..Len(key) : key[i] \notin Lowercase THEN "InvalidCharacters"
    ELSE IF key[1] = "m" THEN "ReservedPrefix"
    ELSE ""

\* A tangle address with a host and an explicit key.
Keyed(node) == HasHost(node) /\ AtOf(node).some

\* The last root child the run looked at.
LastSrc == << Len(AllDocs), Len(AllDocs[Len(AllDocs)]) >>

\* The tags of the blocks a FileBlocks holds as unpositioned.
UnpositionedSrcs(self) == { self.unpositioned[i].src : i \in 1..Len(self.unpositioned) }

\* C4: an explicit key is accepted if and only if it is non-empty, all
\* lowercase ASCII letters and does not start with "m"; any other key ends
\* the run, at the fragment that carries it, with Empty, InvalidCharacters
\* or ReservedPrefix in that order of precedence; a position error is only
\* ever raised so; and no block with an explicit key is stored unpositioned.
C4_PositionValidation ==
    /\ \A x \in Srcs(AllDocs) :
        LET node == NodeOf(AllDocs, x) IN
        Keyed(node) =>
            IF ExpectedError(AtOf(node).val) = ""
            THEN /\ Accepted(node)
                 /\ KeyOf(node) = AtOf(node).val
                 /\ ~(x = LastSrc /\ err \in PositionErrors)
            ELSE /\ pc = "failed"
                 /\ err = ExpectedError(AtOf(node).val)
                 /\ x = LastSrc
    /\ err \in PositionErrors =>
        /\ pc = "failed"
        /\ Keyed(NodeOf(docs, LastSrc))
        /\ err = ExpectedError(AtOf(NodeOf(docs, LastSrc)).val)
    /\ \A p \in DOMAIN blocks : \A x \in UnpositionedSrcs(blocks[p]) :
        ~Keyed(NodeOf(AllDocs, x))
    /\ \A p \in DOMAIN files : \A x \in UnpositionedSrcs(files[p]) :
        ~Keyed(NodeOf(AllDocs, x))

\* The run failed with InvalidCharacters on the key "Ma", after a block
\* with a valid key of the same document was stored.
C4_Witness ==
    /\ pc = "failed"
    /\ err = "InvalidCharacters"
    /\ AtOf(NodeOf(docs, LastSrc)).val = << "M", "a" >>
    /\ \E x \in Srcs(docs) :
        /\ x[1] = LastSrc[1]
        /\ x # LastSrc
        /\ Explicit(NodeOf(docs, x))

(***************************************************************************)
(* Output.                                                                 *)
(***************************************************************************)
\* C5: nothing is written while documents are still read, parsed and
\* merged, and a run that ends with a position error or a duplicate-position
\* error has written no file.
C5_NoWriteBeforeAllParsed ==
    /\ pc \in { "walk", "parse" } => written = EmptyMap
    /\ err \in PositionErrors \cup { "DuplicatePosition" } =>
        pc = "failed" /\ written = EmptyMap

\* The run failed on a duplicate key in its second document, after the
\* first document's blocks were merged; nothing is written.
C5_Witness ==
    /\ pc = "failed"
    /\ err = "DuplicatePosition"
    /\ Len(docs) = 2
    /\ \E x \in Srcs(docs) : x[1] = 1 /\ Accepted(NodeOf(docs, x))
    /\ written = EmptyMap

\* The documents in the order the run took them.
RunOrder == [k \in 1..Len(docs) |-> k]

\* C6 as stated: no run ends in error after having written a file.
C6_Original == pc = "failed" => written = EmptyMap

\* C6, amended: a run that ends in error has written no file, unless the
\* error is an I/O error of tangle's write loop; then every document was
\* read, parsed and merged, and the files of the earlier turns of the loop
\* are written, whole, and at least one file is not.
C6_OnlyWriteErrorsLeaveFiles ==
    pc = "failed" =>
        IF err = "IoWrite"
        THEN LET r == read_blocks(docs, RunOrder) IN
             /\ r.ok
             /\ DOMAIN written \subseteq DOMAIN r.files
             /\ DOMAIN written # DOMAIN r.files
             /\ \A p \in DOMAIN written : written[p] = to_content(r.files[p])
        ELSE written = EmptyMap

\* The run ended in error with one file written and another not.
C6_Witness ==
    /\ pc = "failed"
    /\ err = "IoWrite"
    /\ written # EmptyMap

(***************************************************************************)
(* Addresses.                                                              *)
(***************************************************************************)
\* The tags of the blocks a FileBlocks holds with this content.
StoredSrcs(self, content) ==
    { self.positioned[i].src : i \in { j \in 1..Len(self.positioned) :
                                         self.positioned[j].content = content } }
    \cup { self.unpositioned[i].src : i \in { j \in 1..Len(self.unpositioned) :
                                                self.unpositioned[j].content = content } }

\* C7 as stated: a tangle address with a host ends the run with an address
\* error and nothing is written.
C7_Original ==
    \A x \in Srcs(AllDocs) :
        HasHost(NodeOf(AllDocs, x)) =>
            pc = "failed" /\ err = "InvalidAddress" /\ written = EmptyMap

\* The destination a tangle address with a host names: the host, followed
\* by the URL's path unless that is empty or "/".
Destination(node) ==
    LET url == node.lang.val IN
    IF url.path \in { << >>, << "/" >> } THEN << url.host.val >>
    ELSE << url.host.val >> \o PathBuf_from(url.path)

\* C7, amended: a tangle address with a host is no error: the host is the
\* first component of the destination, followed by the URL's path, and the
\* fragment, when its key is absent or valid, is stored as a block of that
\* destination with its content.
C7_HostIsPath ==
    \A x \in Srcs(AllDocs) :
        LET node == NodeOf(AllDocs, x) IN
        (HasHost(node) /\ (AtOf(node).some => ExpectedError(AtOf(node).val) = "")) =>
            /\ x \in Current =>
                /\ Destination(node) \in DOMAIN blocks
                /\ x \in StoredSrcs(blocks[Destination(node)], node.value)
            /\ x \in Srcs(Merged) =>
                /\ Destination(node) \in DOMAIN files
                /\ x \in StoredSrcs(files[Destination(node)], node.value)
            /\ (x = LastSrc /\ pc = "failed") =>
                err \in { "DuplicatePosition", "IoRead", "IoWrite" }

\* The run is over and the file g/x of the fragment tangle://g/x is written.
C7_Witness ==
    /\ pc = "done"
    /\ << << "g" >>, << "x" >> >> \in DOMAIN written
    /\ \E x \in Srcs(docs) :
        /\ HasHost(NodeOf(docs, x))
        /\ NodeOf(docs, x).lang.val.host.val = << "g" >>

\* C8: a tangle address with no host ends the run in error.
C8_HostlessIsFatal ==
    \A x \in Srcs(AllDocs) :
        (IsTangle(NodeOf(AllDocs, x)) /\ ~HasHost(NodeOf(AllDocs, x))) => pc = "failed"

(***************************************************************************)
(* The order in which the documents are processed.                         *)
(***************************************************************************)
\* The orders in which n documents can be taken.
Orders(n) == { o \in [1..n -> 1..n] : \A i, j \in 1..n : i # j => o[i] # o[j] }

\* The documents that add an unpositioned block to this FileBlocks.
UnpositionedDocs(self) == { self.unpositioned[i].src[1] : i \in 1..Len(self.unpositioned) }

\* C9 as stated: the documents of an accepted run render to the same
\* content of every file in whatever order they are processed.
C9_Original ==
    (pc = "write" /\ written = EmptyMap) =>
        \A o \in Orders(Len(docs)) :
            LET r == read_blocks(docs, o) IN
            /\ r.ok
            /\ DOMAIN r.files = DOMAIN files
            /\ \A p \in DOMAIN files : to_content(r.files[p]) = to_content(files[p])

\* C9, amended: the documents of an accepted run, processed in any order,
\* give the same destinations, and for each destination the same sequence
\* of position keys with every explicitly positioned block in the same
\* place and the same unpositioned blocks in the remaining places; the
\* content of a file is the same for every order when at most one document
\* adds unpositioned blocks to it.
C9_OrderOfExplicitKeys ==
    (pc = "write" /\ written = EmptyMap) =>
        \A o \in Orders(Len(docs)) :
            LET r == read_blocks(docs, o) IN
            /\ r.ok
            /\ DOMAIN r.files = DOMAIN files
            /\ \A p \in DOMAIN files :
                LET mine == sorted_blocks(files[p])
                    other == sorted_blocks(r.files[p])
                IN  /\ Len(other) = Len(mine)
                    /\ \A i \in 1..Len(mine) :
                        /\ other[i].key = mine[i].key
                        /\ mine[i].key # << "m" >> => other[i] = mine[i]
                    /\ { other[i] : i \in 1..Len(other) } = { mine[i] : i \in 1..Len(mine) }
                    /\ Cardinality(UnpositionedDocs(files[p])) <= 1 =>
                        to_content(r.files[p]) = to_content(files[p])

\* Two documents were accepted that both add blocks with explicit keys to
\* one destination, the later document the lesser key, and one of them an
\* unpositioned block too.
C9_Witness ==
    /\ pc = "write"
    /\ Len(docs) = 2
    /\ \E p \in DOMAIN files :
        /\ Cardinality(UnpositionedDocs(files[p])) = 1
        /\ \E i, j \in 1..Len(files[p].positioned) :
            /\ files[p].positioned[i].src[1] = 1
            /\ files[p].positioned[j].src[1] = 2
            /\ LexLess(files[p].positioned[j].at, files[p].positioned[i].at)

\* C10: whether the documents of a run are accepted or rejected does not
\* depend on the order in which they are processed.
C10_SameDecision ==
    (  \/ pc = "write" /\ written = EmptyMap
       \/ pc = "failed" /\ err \in PositionErrors \cup { "DuplicatePosition" })
    =>
        \A o \in Orders(Len(docs)) : read_blocks(docs, o).ok = (pc = "write")

\* The run was rejected for a key of its second document that its first
\* document, accepted alone, had stored for the same destination.
C10_Witness ==
    /\ pc = "failed"
    /\ err = "DuplicatePosition"
    /\ Len(docs) = 2
    /\ parse_markdown(docs[1], 1).ok
    /\ parse_markdown(docs[2], 2).ok
    /\ \E x, y \in Srcs(docs) : x[1] = 1 /\ y[1] = 2 /\ DupPair(docs, x, y)

\* C11: a written file is the contents of its destination's blocks in
\* sorted order, each exactly as its fence holds it (nothing trimmed), with
\* "\n\n" between two neighbours and exactly one "\n" after the last,
\* whatever the last content ends with; a single block c renders as c "\n".
C11_JoinedThenNewline ==
    \A p \in DOMAIN written :
        pc # "failed" =>
        LET sorted == sorted_blocks(files[p])
            out == written[p]
            n == Len(sorted)
        IN  /\ n >= 1
            /\ Len(out) = StartOf(sorted, n) + Len(NodeOf(docs, sorted[n].src).value)
            /\ out[Len(out)] = "\n"
            /\ \A i \in 1..n : SpanIs(out, sorted, i, NodeOf(docs, sorted[i].src).value)
            /\ \A i \in 2..n :
                /\ out[StartOf(sorted, i) - 2] = "\n"
                /\ out[StartOf(sorted, i) - 1] = "\n"
            /\ n = 1 => out = NodeOf(docs, sorted[1].src).value \o << "\n" >>

\* A file of several blocks is written whose first and last contents both
\* end with a newline of their own.
C11_Witness ==
    \E p \in DOMAIN written :
        pc = "done" /\
        LET sorted == sorted_blocks(files[p])
            n == Len(sorted)
        IN  /\ n >= 2
            /\ sorted[1].content[Len(sorted[1].content)] = "\n"
            /\ sorted[n].content[Len(sorted[n].content)] = "\n"

\* A root child that holds a tangle fence below it: a block quote or a list.
Nested(node) == node.kind \in { "blockquote", "list" }

\* The root children of these documents that are fences accepted for path.
TopLevelFor(ds, path) ==
    { x \in Srcs(ds) :
        /\ NodeOf(ds, x).kind = "code"
        /\ Accepted(NodeOf(ds, x))
        /\ PathOf(NodeOf(ds, x)) = path }

\* The destinations of the accepted fences among the root children.
TopLevelPaths(ds) ==
    { PathOf(NodeOf(ds, x)) :
        x \in { y \in Srcs(ds) : NodeOf(ds, y).kind = "code" /\ Accepted(NodeOf(ds, y)) } }

\* The map holds the blocks of the root-level fences among these sources
\* and nothing else.
OnlyTopLevel(map, ds, among) ==
    /\ DOMAIN map = TopLevelPaths(ds) \cap { PathOf(NodeOf(ds, x)) : x \in
                        { y \in among : NodeOf(ds, y).kind = "code" /\ Accepted(NodeOf(ds, y)) } }
    /\ \A p \in DOMAIN map :
        LET stored == all_blocks(map[p]) IN
        /\ \A i \in 1..Len(stored) : ~Nested(NodeOf(ds, stored[i].src))
        /\ Len(stored) = Cardinality(TopLevelFor(ds, p) \cap among)

\* C12: only the direct children of the root take part: a tangle fence
\* inside a block quote or a list item adds no block and creates no
\* destination entry, in the document's map and in the run's, also when its
\* address is that of a root-level fence.
C12_TopLevelOnly ==
    /\ pc = "parse" => OnlyTopLevel(blocks, AllDocs, Current)
    /\ pc # "failed" => OnlyTopLevel(files, docs, Srcs(docs))

\* A run has finished whose documents hold the root-level fence tangle://f
\* and a block quote with the same fence inside; the file f, the only one,
\* holds the one content.
C12_Witness ==
    /\ pc = "done"
    /\ \E x, y \in Srcs(docs) :
        /\ NodeOf(docs, x) = Tangle(<< "f" >>, << >>, << >>, << "A" >>)
        /\ NodeOf(docs, y).kind = "blockquote"
        /\ NodeOf(docs, y).children[1] = NodeOf(docs, x)
    /\ DOMAIN written = { PathBuf_from(<< "f" >>) }
    /\ written[PathBuf_from(<< "f" >>)] = << "A", "\n" >>

\* The root child is not a fence, or a fence with no language, or with a
\* language that is not an address of the tangle scheme.
NotTangle(node) ==
    \/ node.kind # "code"
    \/ ~node.lang.some
    \/ ~node.lang.val.isUrl
    \/ node.lang.val.scheme # "tangle"

\* These root children without the ones that are no tangle fences.
WithoutNotTangle(children) == SelectSeq(children, LAMBDA node : ~NotTangle(node))

\* A map without the tags of its blocks: what the program stores.
Untagged(map) ==
    [p \in DOMAIN map |->
        [positioned |-> [i \in 1..Len(map[p].positioned) |->
                            << map[p].positioned[i].at, map[p].positioned[i].content >>],
         unpositioned |-> [i \in 1..Len(map[p].unpositioned) |->
                            map[p].unpositioned[i].content]]]

\* C13: a root child that is not a fence, has no language, or whose
\* language is not a tangle-scheme address is skipped silently: the maps
\* are the ones the same documents give without those children, and a run
\* fails for its fragments only if it fails, the same way, without them.
C13_SkippedSilently ==
    LET kept == [d \in 1..Len(docs) |-> WithoutNotTangle(docs[d])]
        run == read_blocks(kept, [d \in 1..Len(docs) |-> d])
    IN  /\ pc = "parse" =>
            LET doc == parse_markdown(WithoutNotTangle(cur), Len(docs) + 1) IN
            doc.ok /\ Untagged(doc.files) = Untagged(blocks)
        /\ pc \in { "walk", "parse", "write", "done" } =>
            run.ok /\ Untagged(run.files) = Untagged(files)
        /\ pc = "failed" /\ err \notin { "IoRead", "IoWrite" } =>
            ~run.ok /\ run.err = err

\* A run has finished on a document that holds a fence that is no tangle
\* fence before a tangle fence, and a file was written.
C13_Witness ==
    /\ pc = "done"
    /\ written # EmptyMap
    /\ \E x, y \in Srcs(docs) :
        /\ SrcLess(x, y)
        /\ NodeOf(docs, x).kind = "code"
        /\ NotTangle(NodeOf(docs, x))
        /\ Accepted(NodeOf(docs, y))

\* C14: a failure to enumerate the input directory or one of its entries,
\* or to read a discovered document, ends the run in error: no run that met
\* one completes, and a failed read is the run's error.
C14_IoFailuresAreFatal ==
    /\ pc = "done" => dropped = 0
    /\ err = "IoRead" => pc = "failed"

\* The root children of the run's documents accepted as blocks.
AcceptedSrcs == { x \in Srcs(docs) : Accepted(NodeOf(docs, x)) }

\* The tags of the blocks a destination holds.
HeldSrcs(self) == { all_blocks(self)[i].src : i \in 1..Len(all_blocks(self)) }

\* C15: after a successful run there is exactly one output file per
\* destination path that received an accepted block; the content of every
\* accepted block is in the file of its own destination exactly once and in
\* no other file, and the file holds nothing else; no destination without
\* blocks is ever kept or rendered.
C15_OneFilePerDestination ==
    /\ \A p \in DOMAIN files : all_blocks(files[p]) # << >>
    /\ \A p \in DOMAIN blocks : all_blocks(blocks[p]) # << >>
    /\ pc = "done" =>
        /\ DOMAIN written = { PathOf(NodeOf(docs, x)) : x \in AcceptedSrcs }
        /\ \A p \in DOMAIN written :
            LET sorted == sorted_blocks(files[p])
                out == written[p]
                n == Len(sorted)
                own == { x \in AcceptedSrcs : PathOf(NodeOf(docs, x)) = p }
            IN  /\ { sorted[i].src : i \in 1..n } = own
                /\ n = Cardinality(own)
                /\ \A i \in 1..n : SpanIs(out, sorted, i, NodeOf(docs, sorted[i].src).value)
                /\ Len(out) = StartOf(sorted, n) + Len(sorted[n].content)
                /\ \A q \in (DOMAIN written) \ { p } : own \cap HeldSrcs(files[q]) = { }

\* A run has finished that wrote two files, one of them with blocks of two
\* documents.
C15_Witness ==
    /\ pc = "done"
    /\ Cardinality(DOMAIN written) = 2
    /\ \E p \in DOMAIN written :
        \E x, y \in HeldSrcs(files[p]) : x[1] # y[1]

====
